---- MODULE Spec2Model ----
\* Locale-resolution middleware of the site (middleware(), getLocale(),
\* getBrowserLanguage(), updateLocaleCookies(), shouldExclude()) together with
\* the URL helpers it calls and a client that holds the locale cookie.
\*
\* Strings are sequences of one-character strings, so that startsWith,
\* includes, replace and split are computed on characters as the code does.
\* An optional value (string | undefined) is a sequence of length 0 or 1.
EXTENDS Integers, Sequences, FiniteSets, TLC

\* ---------------------------------------------------------------------
\* Bounds and input sets
\* ---------------------------------------------------------------------

\* Largest number of language ranges in an Accept-Language header.
MaxTags == 2

\* Redirects counted in one chain of followed responses; the count saturates.
MaxHops == 2

\* ---------------------------------------------------------------------
\* Optional values and string primitives
\* ---------------------------------------------------------------------

undefined == <<>>

Some(v) == <<v>>

IsDefined(o) == o # <<>>

Val(o) == o[1]

\* String.prototype.startsWith
StartsWith(s, p) == Len(p) <= Len(s) /\ SubSeq(s, 1, Len(p)) = p

\* String.prototype.indexOf, 1-based, 0 when the substring does not occur.
IndexOf(s, sub) ==
  LET hits == {i \in 1..(Len(s) - Len(sub) + 1) : SubSeq(s, i, i + Len(sub) - 1) = sub}
  IN IF hits = {} THEN 0 ELSE CHOOSE i \in hits : \A j \in hits : i <= j

\* String.prototype.includes
Includes(s, sub) == IndexOf(s, sub) # 0

\* String.prototype.replace with a string pattern: first occurrence only.
Replace(s, pat, rep) ==
  LET i == IndexOf(s, pat)
  IN IF i = 0 THEN s
     ELSE SubSeq(s, 1, i - 1) \o rep \o SubSeq(s, i + Len(pat), Len(s))

\* String.prototype.split on a one-character separator.
RECURSIVE Split(_, _)
Split(s, ch) ==
  LET i == IndexOf(s, <<ch>>)
  IN IF i = 0 THEN <<s>>
     ELSE <<SubSeq(s, 1, i - 1)>> \o Split(SubSeq(s, i + 1, Len(s)), ch)

\* Array.prototype.join
RECURSIVE Join(_, _)
Join(parts, sep) ==
  IF parts = <<>> THEN <<>>
  ELSE IF Len(parts) = 1 THEN parts[1]
  ELSE parts[1] \o sep \o Join(Tail(parts), sep)

\* Array.prototype.includes on a list of strings.
ListIncludes(list, x) == \E i \in 1..Len(list) : list[i] = x

\* ---------------------------------------------------------------------
\* Configuration
\* ---------------------------------------------------------------------

DEFAULT_LOCALE == <<"e", "n">>

LOCALES == << <<"e", "n">>, <<"p", "l">>, <<"s", "v">> >>

\* getLocales(): the supported locales.
getLocales == LOCALES

\* A variant of getValidLocale that returns its input.
getValidLocale_identity(locale) == locale

\* getValidLocale: the input when it is supported, else the default.
getValidLocale(locale) ==
  IF ListIncludes(getLocales, locale) THEN locale ELSE DEFAULT_LOCALE

\* Array.prototype.filter(Boolean) on a list of strings.
NonEmptyString(x) == x # <<>>

\* path.split('/').filter(Boolean), then drop a leading supported locale.
mapPathWithoutLocale(path) ==
  LET parts == SelectSeq(Split(path, "/"), NonEmptyString)
      first == IF parts = <<>> THEN <<>> ELSE parts[1]
  IN IF ListIncludes(LOCALES, first) THEN Join(Tail(parts), <<"/">>)
     ELSE Join(parts, <<"/">>)

\* ---------------------------------------------------------------------
\* URL helpers
\* ---------------------------------------------------------------------

\* URLSearchParams.toString(): key=value pairs joined by '&'.
RECURSIVE ParamsToString(_)
ParamsToString(params) ==
  IF params = <<>> THEN <<>>
  ELSE LET kv == params[1][1] \o <<"=">> \o params[1][2]
       IN IF Len(params) = 1 THEN kv
          ELSE kv \o <<"&">> \o ParamsToString(Tail(params))

\* A variant of createUrl with the test for an empty query string inverted.
createUrl_invertedMark(pathname, params) ==
  LET paramsString == ParamsToString(params)
      queryString == (IF Len(paramsString) # 0 THEN <<>> ELSE <<"?">>) \o paramsString
  IN pathname \o queryString

createUrl(pathname, params) ==
  LET paramsString == ParamsToString(params)
      queryString == (IF Len(paramsString) # 0 THEN <<"?">> ELSE <<>>) \o paramsString
  IN pathname \o queryString

\* A variant of leadingSlashUrlPath that prepends a slash unconditionally.
leadingSlashUrlPath_always(pathname) == <<"/">> \o pathname

leadingSlashUrlPath(pathname) ==
  (IF StartsWith(pathname, <<"/">>) THEN <<>> ELSE <<"/">>) \o pathname

\* ---------------------------------------------------------------------
\* Exclusion
\* ---------------------------------------------------------------------

\* A variant of shouldExclude without the test for a dot.
shouldExclude_noDot(path) ==
  \/ StartsWith(path, <<"/", "s", "t", "a", "t", "i", "c">>)
  \/ Includes(path, <<"/", "a", "p", "i", "/">>)

shouldExclude(path) ==
  \/ StartsWith(path, <<"/", "s", "t", "a", "t", "i", "c">>)
  \/ Includes(path, <<"/", "a", "p", "i", "/">>)
  \/ Includes(path, <<".">>)


\* config.matcher: '/((?!api|_next/static|_next/image|favicon.ico).*)'.
\* A '.' of the pattern is the regular-expression wildcard.
RegexPrefix(s, pat) ==
  /\ Len(pat) <= Len(s)
  /\ \A i \in 1..Len(pat) : pat[i] = "." \/ pat[i] = s[i]

MatcherExclusions ==
  { <<"a", "p", "i">>,
    <<"_", "n", "e", "x", "t", "/", "s", "t", "a", "t", "i", "c">>,
    <<"_", "n", "e", "x", "t", "/", "i", "m", "a", "g", "e">>,
    <<"f", "a", "v", "i", "c", "o", "n", ".", "i", "c", "o">> }

MatcherMatches(path) ==
  /\ StartsWith(path, <<"/">>)
  /\ \A pat \in MatcherExclusions : ~RegexPrefix(Tail(path), pat)

\* ---------------------------------------------------------------------
\* Accept-Language negotiation (Negotiator(...).languages())
\* ---------------------------------------------------------------------

\* A header is a list of language ranges [tag, q]; q is in tenths.
\* parseLanguage: null (FALSE here) when the range does not match
\* /^\s*([^\s\-;]+)(?:-([^\s;]+))?\s*(?:;(.*))?$/.
WellFormedTag(tag) ==
  LET dash == IndexOf(tag, <<"-">>)
  IN /\ tag # <<>>
     /\ ~Includes(tag, <<" ">>)
     /\ ~Includes(tag, <<";">>)
     /\ dash # 1
     /\ dash # Len(tag)

\* Indices of the ranges that parse and have q > 0 (filter(isQuality)).
QualityIndices(ranges) ==
  {i \in 1..Len(ranges) : WellFormedTag(ranges[i].tag) /\ ranges[i].q > 0}

\* compareSpecs without a list of available languages: q descending, then
\* position in the header ascending.
SpecBefore(ranges, i, j) ==
  \/ ranges[i].q > ranges[j].q
  \/ ranges[i].q = ranges[j].q /\ i < j

RECURSIVE SortSpecs(_, _)
SortSpecs(ranges, idx) ==
  IF idx = {} THEN <<>>
  ELSE LET first == CHOOSE i \in idx : \A j \in idx \ {i} : SpecBefore(ranges, i, j)
       IN <<ranges[first].tag>> \o SortSpecs(ranges, idx \ {first})

NegotiatorLanguages(ranges) == SortSpecs(ranges, QualityIndices(ranges))

\* ---------------------------------------------------------------------
\* Locale resolution
\* ---------------------------------------------------------------------

\* The first language that is a locale, and the first whose primary subtag is.
RECURSIVE ExactMatch(_, _)
ExactMatch(languages, locales) ==
  IF languages = <<>> THEN undefined
  ELSE IF ListIncludes(locales, Head(languages)) THEN Some(Head(languages))
  ELSE ExactMatch(Tail(languages), locales)

RECURSIVE PrefixMatch(_, _)
PrefixMatch(languages, locales) ==
  IF languages = <<>> THEN undefined
  ELSE IF ListIncludes(locales, Split(Head(languages), "-")[1])
    THEN Some(Split(Head(languages), "-")[1])
  ELSE PrefixMatch(Tail(languages), locales)

\* A variant of FirstMatch that prefers an exact match anywhere in the list
\* to a primary-subtag match.
FirstMatch_exactFirst(languages, locales) ==
  IF IsDefined(ExactMatch(languages, locales)) THEN ExactMatch(languages, locales)
  ELSE PrefixMatch(languages, locales)

\* The for loop of getBrowserLanguage over the negotiated languages.
RECURSIVE FirstMatch(_, _)
FirstMatch(languages, locales) ==
  IF languages = <<>> THEN undefined
  ELSE LET lang == Head(languages)
           langPrefix == Split(lang, "-")[1]
       IN IF ListIncludes(locales, lang) THEN Some(lang)
          ELSE IF ListIncludes(locales, langPrefix) THEN Some(langPrefix)
          ELSE FirstMatch(Tail(languages), locales)

\* request.headers.get('Accept-Language') is undefined, or Some(ranges);
\* Some(<<>>) is the empty header string.
getBrowserLanguage(request, locales) ==
  LET headerLanguage == request.header
  IN IF ~IsDefined(headerLanguage) \/ Val(headerLanguage) = <<>> THEN undefined
     ELSE FirstMatch(NegotiatorLanguages(Val(headerLanguage)), locales)

\* JavaScript truthiness of string | undefined.
Truthy(o) == IsDefined(o) /\ Val(o) # <<>>

\* A variant of getLocale that consults the browser language before the cookie.
getLocale_headerFirst(request, locales) ==
  LET cookieLocale == request.cookie
      browserLang == getBrowserLanguage(request, locales)
  IN IF Truthy(browserLang) /\ ListIncludes(locales, Val(browserLang))
       THEN Val(browserLang)
     ELSE IF Truthy(cookieLocale) /\ ListIncludes(locales, Val(cookieLocale))
       THEN Val(cookieLocale)
     ELSE DEFAULT_LOCALE

\* A variant of getLocale that trusts any non-empty cookie value.
getLocale_anyCookie(request, locales) ==
  LET cookieLocale == request.cookie
      browserLang == getBrowserLanguage(request, locales)
  IN IF Truthy(cookieLocale) THEN Val(cookieLocale)
     ELSE IF Truthy(browserLang) /\ ListIncludes(locales, Val(browserLang))
       THEN Val(browserLang)
     ELSE DEFAULT_LOCALE

\* A variant of getLocale that falls back to the browser language unchecked.
getLocale_rawFallback(request, locales) ==
  LET cookieLocale == request.cookie
      headerLanguage == request.header
  IN IF Truthy(cookieLocale) /\ ListIncludes(locales, Val(cookieLocale))
       THEN Val(cookieLocale)
     ELSE IF IsDefined(headerLanguage) /\ Val(headerLanguage) # <<>>
       THEN Split(Val(headerLanguage)[1].tag, "-")[1]
     ELSE DEFAULT_LOCALE

getLocale(request, locales) ==
  LET cookieLocale == request.cookie
      browserLang == getBrowserLanguage(request, locales)
  IN IF Truthy(cookieLocale) /\ ListIncludes(locales, Val(cookieLocale))
       THEN Val(cookieLocale)
     ELSE IF Truthy(browserLang) /\ ListIncludes(locales, Val(browserLang))
       THEN Val(browserLang)
     ELSE DEFAULT_LOCALE

\* ---------------------------------------------------------------------
\* Responses
\* ---------------------------------------------------------------------

\* NextResponse.next(): no rewrite, no redirect, no cookie, no header.
\* locale is the middleware's local variable (localeInPathname / locale).
ResponseNext ==
  [action |-> "PASSTHROUGH", target |-> undefined, setCookie |-> undefined,
   deleteCookie |-> FALSE, xLocale |-> <<>>, locale |-> undefined]

ResponseRewrite(url) == [ResponseNext EXCEPT !.action = "REWRITE", !.target = Some(url)]

ResponseRedirect(url) == [ResponseNext EXCEPT !.action = "REDIRECT", !.target = Some(url)]

\* A variant of updateLocaleCookies that writes the cookie on every response.
updateLocaleCookies_alwaysSet(request, response, locale) ==
  [response EXCEPT !.setCookie = locale, !.xLocale = Append(@, Val(locale))]

\* A variant of updateLocaleCookies that sets the header only with the cookie.
updateLocaleCookies_headerOnChange(request, response, locale) ==
  LET changed == locale # request.cookie
  IN [response EXCEPT
        !.setCookie = IF changed THEN locale ELSE @,
        !.xLocale = IF changed THEN Append(@, Val(locale)) ELSE @]

\* A variant of updateLocaleCookies that writes the cookie only for a client
\* that sent none.
updateLocaleCookies_onlyWhenAbsent(request, response, locale) ==
  [response EXCEPT
     !.setCookie = IF ~IsDefined(request.cookie) THEN locale ELSE @,
     !.xLocale = Append(@, Val(locale))]

\* A variant of updateLocaleCookies that also writes the cookie whenever
\* the request has an Accept-Language header.
updateLocaleCookies_fromHeader(request, response, locale) ==
  [response EXCEPT
     !.setCookie = IF locale # request.cookie \/ IsDefined(request.header)
                     THEN locale ELSE @,
     !.xLocale = Append(@, Val(locale))]

\* A variant of updateLocaleCookies that never writes the cookie.
updateLocaleCookies_noSet(request, response, locale) ==
  [response EXCEPT !.xLocale = Append(@, Val(locale))]

\* locale is string | undefined; newLocale = locale || null.
updateLocaleCookies(request, response, locale) ==
  LET cookieLocale == request.cookie
      newLocale == IF Truthy(locale) THEN locale ELSE undefined
      changed == ~IsDefined(newLocale) \/ newLocale # cookieLocale
  IN [response EXCEPT
        !.setCookie = IF changed /\ IsDefined(newLocale) THEN newLocale ELSE @,
        !.deleteCookie = IF changed /\ ~IsDefined(newLocale) THEN TRUE ELSE @,
        !.xLocale = IF IsDefined(newLocale) THEN Append(@, Val(newLocale)) ELSE <<>>]

\* A variant of findLocaleInPathname that reports the first supported locale
\* whenever some locale prefixes the path.
findLocaleInPathname_firstLocale(pathname) ==
  IF \E i \in 1..Len(LOCALES) :
       \/ StartsWith(pathname, <<"/">> \o LOCALES[i] \o <<"/">>)
       \/ pathname = <<"/">> \o LOCALES[i]
  THEN Some(LOCALES[1]) ELSE undefined

\* A variant of findLocaleInPathname that compares the first non-empty
\* segment of the path with the locales.
findLocaleInPathname_bySegment(pathname) ==
  LET parts == SelectSeq(Split(pathname, "/"), NonEmptyString)
  IN IF parts # <<>> /\ ListIncludes(LOCALES, parts[1]) THEN Some(parts[1])
     ELSE undefined

\* A variant of findLocaleInPathname that tests the prefix /locale without
\* the segment boundary.
findLocaleInPathname_prefixOnly(pathname) ==
  LET hits == {i \in 1..Len(LOCALES) : StartsWith(pathname, <<"/">> \o LOCALES[i])}
  IN IF hits = {} THEN undefined
     ELSE Some(LOCALES[CHOOSE i \in hits : \A j \in hits : i <= j])

\* LOCALES.find(locale => pathname.startsWith(`/${locale}/`) || pathname === `/${locale}`)
findLocaleInPathname(pathname) ==
  LET hits == {i \in 1..Len(LOCALES) :
                 \/ StartsWith(pathname, <<"/">> \o LOCALES[i] \o <<"/">>)
                 \/ pathname = <<"/">> \o LOCALES[i]}
  IN IF hits = {} THEN undefined
     ELSE Some(LOCALES[CHOOSE i \in hits : \A j \in hits : i <= j])

\* A variant of rewriteLocalePath that redirects to the path of a locale
\* other than the default.
rewriteLocalePath_redirecting(request, localeInPathname) ==
  LET pathname == request.path
      pathnameWithoutLocale == Replace(pathname, <<"/">> \o localeInPathname, <<>>)
      newUrl == createUrl(<<"/">> \o localeInPathname
                            \o leadingSlashUrlPath(pathnameWithoutLocale),
                          request.query)
      response == IF localeInPathname = DEFAULT_LOCALE THEN ResponseRewrite(newUrl)
                  ELSE ResponseRedirect(newUrl)
  IN [updateLocaleCookies(request, response, Some(localeInPathname))
        EXCEPT !.locale = Some(localeInPathname)]

\* A variant of rewriteLocalePath that rebuilds the path from its non-empty
\* segments.
rewriteLocalePath_bySegments(request, localeInPathname) ==
  LET newUrl == createUrl(<<"/">> \o localeInPathname \o <<"/">>
                            \o mapPathWithoutLocale(request.path),
                          request.query)
      response == ResponseRewrite(newUrl)
  IN [updateLocaleCookies(request, response, Some(localeInPathname))
        EXCEPT !.locale = Some(localeInPathname)]

\* The branch of middleware for a path that carries a locale.
\* The response's locale field records the local variable localeInPathname.
rewriteLocalePath(request, localeInPathname) ==
  LET pathname == request.path
      pathnameWithoutLocale == Replace(pathname, <<"/">> \o localeInPathname, <<>>)
      newUrl == createUrl(<<"/">> \o localeInPathname
                            \o leadingSlashUrlPath(pathnameWithoutLocale),
                          request.query)
      response == ResponseRewrite(newUrl)
  IN [updateLocaleCookies(request, response, Some(localeInPathname))
        EXCEPT !.locale = Some(localeInPathname)]

\* A variant of rewriteOrRedirect that redirects for every locale.
rewriteOrRedirect_alwaysRedirect(locale, newUrl) == ResponseRedirect(newUrl)

\* locale === DEFAULT_LOCALE ? NextResponse.rewrite(...) : NextResponse.redirect(...)
rewriteOrRedirect(locale, newUrl) ==
  IF locale = DEFAULT_LOCALE THEN ResponseRewrite(newUrl) ELSE ResponseRedirect(newUrl)

\* The branch of middleware for a path without a locale.
\* The response's locale field records the local variable locale.
resolveAndPrefix(request) ==
  LET pathname == request.path
      locale == getLocale(request, LOCALES)
      newUrl == createUrl(<<"/">> \o locale \o leadingSlashUrlPath(pathname),
                          request.query)
      response == rewriteOrRedirect(locale, newUrl)
  IN [updateLocaleCookies(request, response, Some(locale))
        EXCEPT !.locale = Some(locale)]

\* A variant of middleware that throws on an unsupported cookie value.
middleware_strictCookie(request) ==
  LET pathname == request.path
      localeInPathname == findLocaleInPathname(pathname)
  IN IF shouldExclude(pathname) THEN ResponseNext
     ELSE IF Truthy(request.cookie) /\ ~ListIncludes(LOCALES, Val(request.cookie))
       THEN [ResponseNext EXCEPT !.action = "ERROR"]
     ELSE IF IsDefined(localeInPathname)
       THEN rewriteLocalePath(request, Val(localeInPathname))
     ELSE resolveAndPrefix(request)

\* A variant of middleware without the exclusion test.
middleware_noExclusion(request) ==
  LET localeInPathname == findLocaleInPathname(request.path)
  IN IF IsDefined(localeInPathname)
       THEN rewriteLocalePath(request, Val(localeInPathname))
     ELSE resolveAndPrefix(request)

middleware(request) ==
  LET pathname == request.path
      localeInPathname == findLocaleInPathname(pathname)
  IN IF shouldExclude(pathname) THEN ResponseNext
     ELSE IF IsDefined(localeInPathname)
       THEN rewriteLocalePath(request, Val(localeInPathname))
     ELSE resolveAndPrefix(request)

\* ---------------------------------------------------------------------
\* Inputs
\* ---------------------------------------------------------------------

BoundedSeq(S, n) == UNION {[1..k -> S] : k \in 0..n}

Paths ==
  { <<"/">>,
    <<"/", "a", "b", "o", "u", "t">>,
    <<"/", "e", "n">>,
    <<"/", "e", "n", "/", "a", "b", "o", "u", "t">>,
    <<"/", "s", "v", "/", "a", "b", "o", "u", "t">>,
    <<"/", "p", "l">>,
    <<"/", "d", "e", "/", "a", "b", "o", "u", "t">>,
    <<"/", "e", "n", "g", "l", "i", "s", "h">>,
    <<"/", "/", "e", "n", "/", "a", "b", "o", "u", "t">>,
    <<"/", "e", "n", "/", "/", "a", "b", "o", "u", "t">>,
    <<"/", "e", "n", "/", "e", "n">>,
    <<"/", "a", "p", "i", "/", "d", "r", "a", "f", "t">>,
    <<"/", "a", "p", "i">>,
    <<"/", "f", "a", "v", "i", "c", "o", "n", ".", "i", "c", "o">>,
    <<"/", "s", "t", "a", "t", "i", "c", "/", "a", "p", "p", ".", "j", "s">>,
    <<"/", "s", "t", "a", "t", "i", "c", "s">>,
    <<"/", "f", "o", "o", "/", "a", "p", "i">>,
    <<"/", "v", "1", ".", "2">> }

\* request.nextUrl.searchParams as a list of <<key, value>>.
Queries ==
  { <<>>,
    << <<<<"r", "e", "f">>, <<"n", "e", "w", "s">>>> >>,
    << <<<<"p">>, <<"2">>>>, <<<<"r", "e", "f">>, <<"n", "e", "w", "s">>>> >> }

\* The paths that are also requested with a query string.
QueriedPaths ==
  { <<"/">>,
    <<"/", "a", "b", "o", "u", "t">>,
    <<"/", "e", "n", "/", "a", "b", "o", "u", "t">>,
    <<"/", "a", "p", "i", "/", "d", "r", "a", "f", "t">> }

\* request.nextUrl: a pathname and its searchParams.
Urls ==
  {<<p, <<>>>> : p \in Paths} \cup {<<p, q>> : p \in QueriedPaths, q \in Queries}

\* Values the client may hold for the cookie __LOCALE_NAME at the start:
\* none, the supported locales, an unsupported code and the empty string.
CookieValues ==
  { undefined, Some(<<"e", "n">>), Some(<<"p", "l">>), Some(<<"s", "v">>), Some(<<"d", "e">>), Some(<<>>) }

\* Language tags of the header: an exact locale, a regional variant of a
\* locale and an unsupported language.
AcceptTags ==
  { <<"e", "n">>, <<"p", "l", "-", "P", "L">>, <<"d", "e", "-", "D", "E">> }

Qualities == {0, 5, 10}

\* A range that Negotiator cannot parse.
MalformedRange == [tag |-> <<"p", "l", "-">>, q |-> 10]

\* The ranges a header is made of: the regional tag with every quality
\* (0 rules it out), the exact tag with the positive ones, the unsupported
\* tag with the highest, and the malformed range.
LanguageRanges ==
  { r \in [tag : AcceptTags, q : Qualities] :
      \/ r.tag = <<"p", "l", "-", "P", "L">>
      \/ r.tag = <<"e", "n">> /\ r.q > 0
      \/ r.q = 10 } \cup {MalformedRange}

Headers == {undefined} \cup {Some(h) : h \in BoundedSeq(LanguageRanges, MaxTags)}

\* ---------------------------------------------------------------------
\* Draft mode: GET /api/draft and GET /api/draft/disable
\* ---------------------------------------------------------------------

\* A property of a JavaScript object: undefined when the object lacks it.
Field(object, name) == IF name \in DOMAIN object THEN object[name] ELSE undefined

\* A template literal `${x}` of a string | null | undefined value.
Interpolate(o, missing) == IF IsDefined(o) THEN Val(o) ELSE missing

\* process.env.OPTIMIZELY_START_PAGE_URL
OPTIMIZELY_START_PAGE_URL == Some(<<"/", "h">>)

\* optimizelyFetch: the JSON body of the CMS answer spread into an object,
\* plus the response headers; a failing fetch throws.
optimizelyFetch(cmsResult) ==
  IF cmsResult.fails THEN [threw |-> TRUE]
  ELSE [threw |-> FALSE, errors |-> cmsResult.errors, data |-> cmsResult.data,
        headers |-> "Headers"]

\* requester: returns the data and the headers of the answer, nothing else.
requester(cmsResult) ==
  LET request == optimizelyFetch(cmsResult)
  IN IF request.threw THEN [threw |-> TRUE]
     ELSE [threw |-> FALSE, data |-> request.data, _headers |-> request.headers]

\* optimizely.GetContentByKeyAndVersion of the SDK built on requester.
GetContentByKeyAndVersion(cmsResult) == requester(cmsResult)

\* The preview URL that GET /api/draft redirects to.
draftUrl(content, key, ver, loc) ==
  LET locText == Interpolate(loc, <<"n", "u", "l", "l">>)
      prefix == <<"/">> \o locText \o <<"/", "d", "r", "a", "f", "t", "/">> \o Val(ver)
  IN IF content.typename = "_Experience"
       THEN prefix \o <<"/", "e", "x", "p", "e", "r", "i", "e", "n", "c", "e", "/">> \o Val(key)
     ELSE IF content.typename = "_Component"
       THEN prefix \o <<"/", "b", "l", "o", "c", "k", "/">> \o Val(key)
     ELSE
       LET hierarchicalUrl ==
             IF IsDefined(content.hierarchical)
               THEN Some(Replace(Val(content.hierarchical),
                                 Interpolate(OPTIMIZELY_START_PAGE_URL, <<>>), <<>>))
             ELSE undefined
           hierarchicalUrlWithoutLocale ==
             IF IsDefined(hierarchicalUrl)
               THEN Some(Replace(Val(hierarchicalUrl), <<"/">> \o locText \o <<"/">>, <<>>))
             ELSE undefined
       IN prefix \o <<"/">>
            \o Interpolate(hierarchicalUrlWithoutLocale, <<"u", "n", "d", "e", "f", "i", "n", "e", "d">>)

DraftResponse(status, body, location, enable) ==
  [status |-> status, body |-> body, location |-> location, enable |-> enable]

\* GET of api/draft: status, body, redirect location and whether
\* draftMode().enable() ran. notFound() is 404, redirect() is 307, an
\* exception of the CMS call is 500.
draftGET(request, cmsResult) ==
  LET token == request.token
      key == request.key
      ver == request.ver
      loc == request.loc
      response == GetContentByKeyAndVersion(cmsResult)
      errors == Field(response, "errors")
      data == Field(response, "data")
      content == IF IsDefined(data) THEN Val(data).item ELSE undefined
  IN IF ~Truthy(ver) \/ ~Truthy(token) \/ ~Truthy(key)
       THEN DraftResponse(404, undefined, undefined, FALSE)
     ELSE IF response.threw THEN DraftResponse(500, undefined, undefined, FALSE)
     ELSE IF IsDefined(errors)
       THEN DraftResponse(401, Some(Join(Val(errors), <<",", " ">>)), undefined, FALSE)
     ELSE IF ~IsDefined(content)
       THEN DraftResponse(400, Some(<<"B", "a", "d", " ", "R", "e", "q", "u", "e", "s", "t">>), undefined, FALSE)
     ELSE DraftResponse(307, undefined, Some(draftUrl(Val(content), key, ver, loc)), TRUE)

\* GET of api/draft/disable.
disableGET == DraftResponse(200, Some(<<"D", "r", "a", "f", "t", " ", "m", "o", "d", "e", " ", "i", "s", " ", "d", "i", "s", "a", "b", "l", "e", "d">>), undefined, FALSE)

\* The preview_token of the link the CMS issued, and other values a client
\* may send: none, the empty string, a token of its own making.
IssuedToken == <<"t", "o", "k">>

DraftTokens == {undefined, Some(<<>>), Some(IssuedToken), Some(<<"x">>)}

DraftKeys == {undefined, Some(<<"k", "1">>)}

DraftVersions == {undefined, Some(<<"7">>)}

DraftLocales == {undefined, Some(<<"e", "n">>)}

DraftRequests ==
  {[token |-> t, key |-> k, ver |-> v, loc |-> l,
    tokenIssued |-> (t = Some(IssuedToken))] :
     t \in DraftTokens, k \in DraftKeys, v \in DraftVersions, l \in DraftLocales}

CmsItem(typename, hierarchical) == [typename |-> typename, hierarchical |-> hierarchical]

CmsData(item) == Some([item |-> item])

\* Answers of the CMS to GetContentByKeyAndVersion: content of each type,
\* no content, errors without data, errors beside data, a failed fetch.
CmsResults ==
  { [fails |-> FALSE, errors |-> undefined,
     data |-> CmsData(Some(CmsItem("_Experience", undefined)))],
    [fails |-> FALSE, errors |-> undefined,
     data |-> CmsData(Some(CmsItem("_Component", undefined)))],
    [fails |-> FALSE, errors |-> undefined,
     data |-> CmsData(Some(CmsItem("_Page", Some(<<"/", "h", "/", "e", "n", "/", "a", "b", "o", "u", "t", "/">>))))],
    [fails |-> FALSE, errors |-> undefined, data |-> CmsData(undefined)],
    [fails |-> FALSE, errors |-> Some(<<<<"E", "1">>>>), data |-> undefined],
    [fails |-> FALSE, errors |-> Some(<<<<"E", "1">>, <<"E", "2">>>>), data |-> CmsData(undefined)],
    [fails |-> FALSE, errors |-> Some(<<<<"E", "2">>>>),
     data |-> CmsData(Some(CmsItem("_Page", Some(<<"/", "h", "/", "e", "n", "/", "a", "b", "o", "u", "t", "/">>))))],
    [fails |-> TRUE, errors |-> undefined, data |-> undefined] }

\* ---------------------------------------------------------------------
\* Pages: draft authorization and the content a page fetches
\* ---------------------------------------------------------------------

\* A variant of checkDraftMode that authorizes everyone.
checkDraftMode_alwaysTrue(isDraftModeEnabled, NODE_ENV) == TRUE

\* A variant of checkDraftMode without the development bypass.
checkDraftMode_ignoresEnv(isDraftModeEnabled, NODE_ENV) == isDraftModeEnabled

\* checkDraftMode: draftMode().isEnabled, or TRUE outside production.
checkDraftMode(isDraftModeEnabled, NODE_ENV) ==
  LET isDevEnvironment == NODE_ENV # "production"
  IN IF ~isDraftModeEnabled /\ isDevEnvironment THEN TRUE
     ELSE isDraftModeEnabled

\* What a page answers: the status, the kind of query it sent to the CMS
\* ("none", "published", or "preview" for a query with preview: true or a
\* draft-mode component) and the validated locale it queried with.
PageResponse(status, fetch, locales) ==
  [status |-> status, fetch |-> fetch, locales |-> locales]

\* HomePage of draft/[version]: notFound() unless checkDraftMode() allows,
\* else GetPreviewStartPage with preview: true.
draftHomePage(params, isDraftModeEnabled, NODE_ENV) ==
  IF ~checkDraftMode(isDraftModeEnabled, NODE_ENV)
    THEN PageResponse(404, "none", undefined)
  ELSE PageResponse(200, "preview", Some(getValidLocale(params.locale)))

\* HomePage of the site: DraftModeHomePage in draft mode, else GetStartPage.
siteHomePage(params, isDraftModeEnabled) ==
  LET locales == getValidLocale(params.locale)
  IN IF isDraftModeEnabled THEN PageResponse(200, "preview", Some(locales))
     ELSE PageResponse(200, "published", Some(locales))

\* CmsPage of the site: DraftModeCmsPage in draft mode, else getPageByURL,
\* then GetVisualBuilderBySlug, then notFound().
cmsPage(params, isDraftModeEnabled, content) ==
  LET locales == getValidLocale(params.locale)
  IN IF isDraftModeEnabled THEN PageResponse(200, "preview", Some(locales))
     ELSE IF ~content.item /\ ~content.experience
       THEN PageResponse(404, "published", Some(locales))
     ELSE PageResponse(200, "published", Some(locales))

\* The page components of the routes.
PageKinds == {"DraftHomePage", "HomePage", "CmsPage"}

\* Values of the [locale] route parameter: the supported locales, and first
\* segments that reach a page without the middleware (they hold a dot).
PageLocales ==
  { <<"e", "n">>, <<"p", "l">>, <<"s", "v">>, <<"v", "1", ".", "2">>, <<"d", "e", ".", "h", "t", "m", "l">> }

PageRequests == [kind : PageKinds, locale : PageLocales]

\* What the CMS holds for the slug: a page, a Visual Builder experience.
PageContents == [item : BOOLEAN, experience : BOOLEAN]

\* process.env.NODE_ENV
NodeEnvs == {"production", "development"}

\* ---------------------------------------------------------------------
\* Language switcher
\* ---------------------------------------------------------------------

\* handleLocaleChange: the path handed to router.push.
handleLocaleChange(pathname, currentLocale, newLocale) ==
  LET currentPath == pathname
  IN IF Includes(currentPath, <<"/">> \o currentLocale)
       THEN Replace(currentPath, <<"/">> \o currentLocale, <<"/">> \o newLocale)
     ELSE <<"/">> \o newLocale \o <<"/">> \o currentPath

\* What follows the locale in the paths of the pages a visitor may be on.
SwitcherRests ==
  { <<>>, <<"/", "a", "b", "o", "u", "t">>, <<"/", "a", "b", "o", "u", "t", "/", "t", "e", "a", "m">>, <<"/", "e", "n", "t", "r", "y">>, <<"/", "b", "l", "o", "g", "/", "e", "n", "g", "l", "i", "s", "h">>, <<"/", "c", "o", "n", "t", "a", "c", "t">>, <<"/", "e", "v", "e", "n", "t", "s", "/", "s", "v", "e", "n", "s", "k", "a">>,
    <<"/", "p", "l", "a", "n">> }

\* The paths of those pages, without a locale and with each locale.
SwitcherPaths ==
  {IF r = <<>> THEN <<"/">> ELSE r : r \in SwitcherRests}
    \cup {<<"/">> \o LOCALES[i] \o r : i \in 1..Len(LOCALES), r \in SwitcherRests}

\* The pages on which the switcher is rendered: usePathname() is the path in
\* the browser and currentLocale the [locale] of the route that the
\* middleware rewrote the path to.
SwitcherPages ==
  { pg \in SwitcherPaths \X {LOCALES[i] : i \in 1..Len(LOCALES)} :
      \E c \in CookieValues :
        LET response == middleware([path |-> pg[1], query |-> <<>>,
                                    cookie |-> c, header |-> undefined])
        IN response.action = "REWRITE" /\ response.locale = Some(pg[2]) }

\* ---------------------------------------------------------------------
\* State
\* ---------------------------------------------------------------------

VARIABLES
  jar,       \* the client's value of the cookie __LOCALE_NAME (optional)
  req,       \* the request last sent: path, query, cookie, header
  resp,      \* the response to it
  handled,   \* whether the matcher let the middleware run on it
  phase,     \* "idle", "responded" or "redirected"
  applied,   \* locale of the last non-excluded response the client applied
  hops,      \* redirects the client has followed since it sent the request
  draftEnabled,  \* draft mode of the client (the bypass cookie of draftMode())
  draftWas,      \* draftEnabled before the last draft-mode request
  draftReq,      \* the last request to api/draft
  cms,           \* the answer of the CMS to it
  draftResp,     \* the response to the last draft-mode request
  afterDisable,  \* api/draft/disable has completed and api/draft has not enabled since
  nodeEnv,       \* process.env.NODE_ENV of the deployment
  pageReq,       \* the last page request: component and [locale] parameter
  pageContent,   \* what the CMS holds for it
  pageResp,      \* the answer of the page
  pathname,      \* usePathname() of the page the visitor is on
  currentLocale, \* currentLocale of its language switcher
  newLocale,     \* the locale selected in the switcher
  newPath        \* the path handed to router.push

localeVars == <<jar, req, resp, handled, phase, applied, hops>>

draftVars == <<draftEnabled, draftWas, draftReq, cms, draftResp,
               afterDisable, nodeEnv, pageReq, pageContent, pageResp>>

switcherVars == <<pathname, currentLocale, newLocale, newPath>>

vars == <<jar, req, resp, handled, phase, applied, hops,
          draftEnabled, draftWas, draftReq, cms, draftResp,
          afterDisable, nodeEnv, pageReq, pageContent, pageResp,
          pathname, currentLocale, newLocale, newPath>>

NoRequest == [path |-> <<"/">>, query |-> <<>>, cookie |-> undefined, header |-> undefined]

NoDraftRequest ==
  [token |-> undefined, key |-> undefined, ver |-> undefined, loc |-> undefined,
   tokenIssued |-> FALSE]

NoCmsResult == [fails |-> FALSE, errors |-> undefined, data |-> undefined]

NoDraftResponse == DraftResponse(0, undefined, undefined, FALSE)

NoPageRequest == [kind |-> "none", locale |-> <<>>]

NoPageContent == [item |-> FALSE, experience |-> FALSE]

NoPageResponse == PageResponse(0, "none", undefined)

\* No draft-mode request and no page request has been made.
DraftIdle ==
  /\ draftEnabled = FALSE
  /\ draftWas = FALSE
  /\ draftReq = NoDraftRequest
  /\ cms = NoCmsResult
  /\ draftResp = NoDraftResponse
  /\ afterDisable = FALSE
  /\ nodeEnv = "production"
  /\ pageReq = NoPageRequest
  /\ pageContent = NoPageContent
  /\ pageResp = NoPageResponse

\* The visitor is on the start page and has not used the switcher.
SwitcherIdle ==
  /\ pathname = <<"/">>
  /\ currentLocale = DEFAULT_LOCALE
  /\ newLocale = undefined
  /\ newPath = undefined

\* No locale request is under way and the client holds no cookie.
LocaleIdle ==
  /\ jar = undefined
  /\ req = NoRequest
  /\ resp = ResponseNext
  /\ handled = FALSE
  /\ phase = "idle"
  /\ applied = undefined
  /\ hops = 0

Init ==
  /\ jar \in CookieValues
  /\ req = NoRequest
  /\ resp = ResponseNext
  /\ handled = FALSE
  /\ phase = "idle"
  /\ applied = undefined
  /\ hops = 0
  /\ DraftIdle
  /\ SwitcherIdle

\* The matcher selects the request and middleware() answers it.
Middleware(request) ==
  /\ MatcherMatches(request.path)
  /\ req' = request
  /\ resp' = middleware(request)
  /\ handled' = TRUE
  /\ phase' = "responded"
  /\ UNCHANGED <<jar, applied>>
  /\ UNCHANGED <<draftVars, switcherVars>>

\* The matcher does not select the request: the middleware is not invoked.
Bypass(request) ==
  /\ ~MatcherMatches(request.path)
  /\ req' = request
  /\ resp' = ResponseNext
  /\ handled' = FALSE
  /\ phase' = "responded"
  /\ UNCHANGED <<jar, applied>>
  /\ UNCHANGED <<draftVars, switcherVars>>

\* The client sends a new request with the cookie it holds.
SendRequest ==
  /\ phase = "idle"
  /\ \E u \in Urls, h \in Headers :
       LET request == [path |-> u[1], query |-> u[2], cookie |-> jar, header |-> h]
       IN Middleware(request) \/ Bypass(request)
  /\ hops' = 0

\* The client applies the response's cookie changes; a response that is not
\* a redirect ends the exchange.
ClientApply ==
  /\ phase = "responded"
  /\ jar' = IF IsDefined(resp.setCookie) THEN resp.setCookie
            ELSE IF resp.deleteCookie THEN undefined
            ELSE jar
  /\ applied' = IF IsDefined(resp.locale) THEN resp.locale ELSE applied
  /\ IF resp.action = "REDIRECT"
       THEN phase' = "redirected" /\ UNCHANGED <<req, resp, handled, hops>>
       ELSE /\ phase' = "idle"
            /\ hops' = 0
            /\ req' = NoRequest
            /\ resp' = ResponseNext
            /\ handled' = FALSE
  /\ UNCHANGED <<draftVars, switcherVars>>

\* URL parsing of a redirect target: pathname before '?', search after.
TargetPathname(url) == Split(url, "?")[1]

RECURSIVE ParseParams(_)
ParseParams(pairs) ==
  IF pairs = <<>> THEN <<>>
  ELSE LET kv == Split(Head(pairs), "=")
       IN << <<kv[1], Join(Tail(kv), <<"=">>)>> >> \o ParseParams(Tail(pairs))

TargetSearchParams(url) ==
  LET i == IndexOf(url, <<"?">>)
  IN IF i = 0 \/ i = Len(url) THEN <<>>
     ELSE ParseParams(Split(SubSeq(url, i + 1, Len(url)), "&"))

\* The client follows a redirect with the same headers and its cookie.
FollowRedirect ==
  /\ phase = "redirected"
  /\ LET request == [path |-> TargetPathname(Val(resp.target)),
                     query |-> TargetSearchParams(Val(resp.target)),
                     cookie |-> jar, header |-> req.header]
     IN Middleware(request) \/ Bypass(request)
  /\ hops' = IF hops < MaxHops THEN hops + 1 ELSE hops

Next == SendRequest \/ ClientApply \/ FollowRedirect

Spec == Init /\ [][Next]_vars

\* The draft-mode routes and the pages: a client, in or out of draft mode,
\* of a deployment in production or not.
DraftInit ==
  /\ LocaleIdle
  /\ SwitcherIdle
  /\ draftEnabled \in BOOLEAN
  /\ draftWas = draftEnabled
  /\ draftReq = NoDraftRequest
  /\ cms = NoCmsResult
  /\ draftResp = NoDraftResponse
  /\ afterDisable = FALSE
  /\ nodeEnv \in NodeEnvs
  /\ pageReq = NoPageRequest
  /\ pageContent = NoPageContent
  /\ pageResp = NoPageResponse

\* GET /api/draft: the handler asks the CMS and answers; draft mode is on
\* afterwards when draftMode().enable() ran.
DraftGet ==
  /\ \E request \in DraftRequests, cmsResult \in CmsResults :
       /\ draftReq' = request
       /\ cms' = cmsResult
       /\ draftResp' = draftGET(request, cmsResult)
       /\ draftEnabled' = (draftGET(request, cmsResult).enable \/ draftEnabled)
       /\ afterDisable' = (afterDisable /\ ~draftGET(request, cmsResult).enable)
  /\ draftWas' = draftEnabled
  /\ pageReq' = NoPageRequest
  /\ pageContent' = NoPageContent
  /\ pageResp' = NoPageResponse
  /\ UNCHANGED <<nodeEnv, localeVars, switcherVars>>

\* GET /api/draft/disable: draftMode().disable().
DraftDisable ==
  /\ draftReq' = NoDraftRequest
  /\ cms' = NoCmsResult
  /\ draftResp' = disableGET
  /\ draftEnabled' = FALSE
  /\ draftWas' = draftEnabled
  /\ afterDisable' = TRUE
  /\ pageReq' = NoPageRequest
  /\ pageContent' = NoPageContent
  /\ pageResp' = NoPageResponse
  /\ UNCHANGED <<nodeEnv, localeVars, switcherVars>>

\* A page of the site or a draft page is requested and rendered.
PageRequest ==
  /\ \E request \in PageRequests, content \in PageContents :
       /\ pageReq' = request
       /\ pageContent' = content
       /\ pageResp' =
            IF request.kind = "DraftHomePage"
              THEN draftHomePage(request, draftEnabled, nodeEnv)
            ELSE IF request.kind = "HomePage"
              THEN siteHomePage(request, draftEnabled)
            ELSE cmsPage(request, draftEnabled, content)
  /\ draftReq' = NoDraftRequest
  /\ cms' = NoCmsResult
  /\ draftResp' = NoDraftResponse
  /\ draftWas' = draftEnabled
  /\ UNCHANGED <<draftEnabled, afterDisable, nodeEnv, localeVars, switcherVars>>

DraftNext == DraftGet \/ DraftDisable \/ PageRequest

DraftSpec == DraftInit /\ [][DraftNext]_vars

\* The language switcher on its own: a visitor on one of the pages.
SwitcherInit ==
  /\ LocaleIdle
  /\ DraftIdle
  /\ \E pg \in SwitcherPages : pathname = pg[1] /\ currentLocale = pg[2]
  /\ newLocale = undefined
  /\ newPath = undefined

\* The visitor selects a locale: handleLocaleChange computes the path and
\* hands it to router.push.
SelectLocale ==
  /\ \E loc \in {LOCALES[i] : i \in 1..Len(LOCALES)} :
       /\ newLocale' = Some(loc)
       /\ newPath' = Some(handleLocaleChange(pathname, currentLocale, loc))
  /\ UNCHANGED <<pathname, currentLocale, localeVars, draftVars>>

\* The visitor opens another page.
OpenPage ==
  /\ \E pg \in SwitcherPages : pathname' = pg[1] /\ currentLocale' = pg[2]
  /\ newLocale' = undefined
  /\ newPath' = undefined
  /\ UNCHANGED <<localeVars, draftVars>>

SwitcherNext == SelectLocale \/ OpenPage

SwitcherSpec == SwitcherInit /\ [][SwitcherNext]_vars

\* ---------------------------------------------------------------------
\* Vocabulary of the properties
\* ---------------------------------------------------------------------

LocaleSet == {LOCALES[i] : i \in 1..Len(LOCALES)}

\* A request has been answered and its response is on record.
Answered == phase # "idle"

\* The middleware ran on the request and the Exclusion Filter let it through.
NonExcluded == Answered /\ handled /\ ~shouldExclude(req.path)

\* The supported locales that the path starts with: /L or /L/...
PathLocales(path) ==
  {L \in LocaleSet : path = <<"/">> \o L \/ StartsWith(path, <<"/">> \o L \o <<"/">>)}

NoLocaleInPath == NonExcluded /\ PathLocales(req.path) = {}

\* The cookie carries a supported locale.
ValidCookie(cookie) == IsDefined(cookie) /\ Val(cookie) \in LocaleSet

\* Primary subtag of a language tag: the text before its first '-'.
PrimarySubtag(tag) ==
  IF \E i \in 1..Len(tag) : tag[i] = "-"
    THEN SubSeq(tag, 1, (CHOOSE i \in 1..Len(tag) :
                           tag[i] = "-" /\ \A j \in 1..(i - 1) : tag[j] # "-") - 1)
  ELSE tag

\* A tag matches a supported locale exactly or by its primary subtag.
TagMatches(tag) == tag \in LocaleSet \/ PrimarySubtag(tag) \in LocaleSet

MatchedLocale(tag) == IF tag \in LocaleSet THEN tag ELSE PrimarySubtag(tag)

\* The header is absent, or none of its well-formed tags matches a locale.
NoMatchingTag(header) ==
  \/ ~IsDefined(header)
  \/ \A i \in 1..Len(Val(header)) :
       ~WellFormedTag(Val(header)[i].tag) \/ ~TagMatches(Val(header)[i].tag)

\* Positions, in negotiated order, of the tags that match a locale.
MatchingPositions(header) ==
  IF IsDefined(header)
    THEN LET languages == NegotiatorLanguages(Val(header))
         IN {i \in 1..Len(languages) : TagMatches(languages[i])}
  ELSE {}

\* The locale of the first matching tag in negotiated order.
PreferredLocale(header) ==
  LET languages == NegotiatorLanguages(Val(header))
      positions == {i \in 1..Len(languages) : TagMatches(languages[i])}
      first == CHOOSE i \in positions : \A j \in positions : i <= j
  IN MatchedLocale(languages[first])

\* The target of a response for locale L: /L followed by the original path
\* and the query.
PrefixedTarget(L) == createUrl(<<"/">> \o L \o req.path, req.query)

\* ---------------------------------------------------------------------
\* Properties
\* ---------------------------------------------------------------------

\* C1: a non-excluded request without a locale in its path is rewritten to
\* /<locale>/<path> when the resolved locale is the default and redirected
\* to /<locale>/<path> when it is not; a redirect is emitted in no other
\* situation.
C1_RewriteDefaultRedirectOther ==
  /\ NoLocaleInPath =>
       /\ IsDefined(resp.locale)
       /\ resp.target = Some(PrefixedTarget(Val(resp.locale)))
       /\ resp.action = IF Val(resp.locale) = DEFAULT_LOCALE THEN "REWRITE" ELSE "REDIRECT"
  /\ (Answered /\ resp.action = "REDIRECT") =>
       /\ NoLocaleInPath
       /\ Val(resp.locale) # DEFAULT_LOCALE

C1_Witness ==
  /\ NoLocaleInPath
  /\ resp.action = "REDIRECT"
  /\ resp.target = Some(<<"/", "p", "l", "/", "a", "b", "o", "u", "t", "?", "r", "e", "f", "=", "n", "e", "w", "s">>)

\* C2: with no locale in the path, a supported cookie value C wins over an
\* Accept-Language header that prefers another supported locale H.
C2_CookieBeatsHeader ==
  (/\ NoLocaleInPath
   /\ ValidCookie(req.cookie)
   /\ MatchingPositions(req.header) # {}
   /\ PreferredLocale(req.header) # Val(req.cookie))
  => resp.locale = req.cookie

C2_Witness ==
  /\ NoLocaleInPath
  /\ req.cookie = Some(<<"s", "v">>)
  /\ MatchingPositions(req.header) # {}
  /\ PreferredLocale(req.header) = <<"p", "l">>
  /\ resp.locale = Some(<<"s", "v">>)

\* C3: a non-excluded request whose path starts with a supported locale L
\* gets locale L whatever the cookie and the header say, is rewritten and
\* never redirected, and has its cookie set to L when the incoming cookie
\* differs from L.
C3_PathLocaleWins ==
  NonExcluded =>
    \A L \in PathLocales(req.path) :
      /\ resp.locale = Some(L)
      /\ resp.action = "REWRITE"
      /\ req.cookie # Some(L) => resp.setCookie = Some(L)

C3_Witness ==
  /\ NonExcluded
  /\ <<"s", "v">> \in PathLocales(req.path)
  /\ req.cookie = Some(<<"p", "l">>)
  /\ MatchingPositions(req.header) # {}
  /\ PreferredLocale(req.header) = <<"e", "n">>
  /\ resp.setCookie = Some(<<"s", "v">>)

\* C4: a request whose path the Exclusion Filter excludes is passed through:
\* no rewrite, no redirect, no Set-Cookie, no X-Locale header.
C4_ExcludedPassThrough ==
  (Answered /\ shouldExclude(req.path)) =>
    /\ resp.action = "PASSTHROUGH"
    /\ resp.target = undefined
    /\ resp.setCookie = undefined
    /\ ~resp.deleteCookie
    /\ resp.xLocale = <<>>

C4_Witness ==
  /\ Answered
  /\ handled
  /\ shouldExclude(req.path)
  /\ req.cookie = Some(<<"s", "v">>)
  /\ MatchingPositions(req.header) # {}
  /\ resp.action = "PASSTHROUGH"

\* C5: without a supported cookie value and without an Accept-Language tag
\* that matches a supported locale, the resolved locale is the default; an
\* unsupported cookie value is never the resolved locale.
C5_DefaultFallback ==
  NoLocaleInPath =>
    /\ (~ValidCookie(req.cookie) /\ NoMatchingTag(req.header))
         => resp.locale = Some(DEFAULT_LOCALE)
    /\ ~ValidCookie(req.cookie) => resp.locale # req.cookie

C5_Witness ==
  /\ NoLocaleInPath
  /\ req.cookie = Some(<<"d", "e">>)
  /\ req.header = Some(<<[tag |-> <<"d", "e", "-", "D", "E">>, q |-> 10]>>)
  /\ resp.locale = Some(DEFAULT_LOCALE)

\* C6: without a supported cookie value, the resolved locale is the locale
\* of the first Accept-Language tag, in negotiated order, that matches a
\* supported locale exactly or by primary subtag; an earlier primary-subtag
\* match wins over a later exact match.
C6_FirstMatchInNegotiatedOrder ==
  (/\ NoLocaleInPath
   /\ ~ValidCookie(req.cookie)
   /\ MatchingPositions(req.header) # {})
  => resp.locale = Some(PreferredLocale(req.header))

C6_Witness ==
  /\ NoLocaleInPath
  /\ req.cookie = undefined
  /\ req.header = Some(<<[tag |-> <<"p", "l", "-", "P", "L">>, q |-> 10], [tag |-> <<"e", "n">>, q |-> 5]>>)
  /\ resp.locale = Some(<<"p", "l">>)

\* C7: a non-excluded response sets the locale cookie exactly when the
\* resolved locale differs from the incoming cookie value (an absent cookie
\* differs), and then to the resolved locale.
C7_SetCookieIffChanged ==
  NonExcluded =>
    /\ IsDefined(resp.setCookie) <=> resp.locale # req.cookie
    /\ IsDefined(resp.setCookie) => resp.setCookie = resp.locale
    /\ ~resp.deleteCookie

C7_Witness ==
  /\ NonExcluded
  /\ ValidCookie(req.cookie)
  /\ resp.locale = req.cookie
  /\ resp.setCookie = undefined

\* C8: every non-excluded response, rewrite or redirect, carries X-Locale
\* with the resolved locale as its single value.
C8_XLocaleHeader ==
  NonExcluded =>
    /\ resp.action \in {"REWRITE", "REDIRECT"}
    /\ IsDefined(resp.locale)
    /\ resp.xLocale = <<Val(resp.locale)>>

C8_Witness ==
  /\ NonExcluded
  /\ resp.action = "REDIRECT"
  /\ resp.setCookie = undefined
  /\ resp.xLocale = <<<<"s", "v">>>>

\* C9: once the client has applied a non-excluded response that resolved
\* locale L, a later non-excluded request without a locale in its path
\* resolves to L whatever its Accept-Language header.
C9_CookieDecidesNextRequest ==
  (NoLocaleInPath /\ IsDefined(applied)) => resp.locale = applied

C9_Witness ==
  /\ NoLocaleInPath
  /\ IsDefined(applied)
  /\ MatchingPositions(req.header) # {}
  /\ PreferredLocale(req.header) # Val(applied)
  /\ resp.locale = applied

\* C10: the effective locale of a non-excluded request, in the target, the
\* cookie and the X-Locale header, is one of the supported locales.
C10_LocaleSupported ==
  NonExcluded =>
    /\ IsDefined(resp.locale)
    /\ Val(resp.locale) \in LocaleSet
    /\ \A i \in 1..Len(resp.xLocale) : resp.xLocale[i] \in LocaleSet
    /\ IsDefined(resp.setCookie) => Val(resp.setCookie) \in LocaleSet
    /\ \E L \in LocaleSet : StartsWith(Val(resp.target), <<"/">> \o L \o <<"/">>)

C10_Witness ==
  /\ NoLocaleInPath
  /\ req.cookie = Some(<<"d", "e">>)
  /\ req.header = Some(<<[tag |-> <<"p", "l", "-", "P", "L">>, q |-> 10]>>)
  /\ resp.locale = Some(<<"p", "l">>)
  /\ resp.setCookie = Some(<<"p", "l">>)

\* The request that asks for the target of the response on record.
TargetRequest ==
  [req EXCEPT !.path = TargetPathname(Val(resp.target)),
              !.query = TargetSearchParams(Val(resp.target))]

\* C11: for a path prefixed with a supported locale, the rewrite target
\* stripped of its locale prefix equals the stripped input path, and the
\* middleware rewrites the target to itself; also for the bare path /L.
C11_NormalizationIdempotent ==
  (NonExcluded /\ PathLocales(req.path) # {}) =>
    /\ resp.action = "REWRITE"
    /\ mapPathWithoutLocale(TargetPathname(Val(resp.target))) = mapPathWithoutLocale(req.path)
    /\ middleware(TargetRequest).action = "REWRITE"
    /\ middleware(TargetRequest).target = resp.target

C11_Witness ==
  /\ NonExcluded
  /\ req.path = <<"/", "p", "l">>
  /\ resp.target = Some(<<"/", "p", "l", "/">>)
  /\ middleware(TargetRequest).target = Some(<<"/", "p", "l", "/">>)

\* C12: the query parameters of the request appear unmodified on the target
\* of every rewrite and redirect; without query parameters the target has
\* no '?'.
C12_QueryPreserved ==
  NonExcluded =>
    /\ TargetSearchParams(Val(resp.target)) = req.query
    /\ req.query = <<>> <=> ~Includes(Val(resp.target), <<"?">>)

C12_Witness ==
  /\ NonExcluded
  /\ resp.action = "REDIRECT"
  /\ Len(req.query) = 2
  /\ resp.target = Some(<<"/", "p", "l", "/", "a", "b", "o", "u", "t", "?", "p", "=", "2",
                          "&", "r", "e", "f", "=", "n", "e", "w", "s">>)

\* The non-empty segments of a path.
Segments(path) == SelectSeq(Split(path, "/"), NonEmptyString)

\* The supported locales equal to the first non-empty segment of the path.
SegmentLocales(path) ==
  IF Segments(path) = <<>> THEN {} ELSE {L \in LocaleSet : L = Segments(path)[1]}

\* The response on record prefixes the whole request path with a locale,
\* which is what the PathHasNoLocale transition does; the PathHasLocale
\* transition keeps the length of the path or adds one slash.
PrefixesWholePath ==
  \E L \in LocaleSet : TargetPathname(Val(resp.target)) = <<"/">> \o L \o req.path

TreatedAsPathHasLocale == NonExcluded /\ ~PrefixesWholePath

\* C13 as stated: a request is in PathHasLocale exactly when the first
\* non-empty segment of its path is a supported locale, so that //en/about
\* is PathHasLocale with locale en.
C13_SegmentPrefixTest ==
  NonExcluded =>
    /\ TreatedAsPathHasLocale <=> SegmentLocales(req.path) # {}
    /\ TreatedAsPathHasLocale => Val(resp.locale) \in SegmentLocales(req.path)

\* C13, amended: a request is in PathHasLocale exactly when its path, as a
\* raw string, equals /L or starts with /L/ for a supported locale L; a path
\* with duplicated leading slashes such as //en/about is PathHasNoLocale.
C13_RawPrefixTest ==
  NonExcluded =>
    /\ TreatedAsPathHasLocale <=> PathLocales(req.path) # {}
    /\ TreatedAsPathHasLocale => Val(resp.locale) \in PathLocales(req.path)

C13_Witness ==
  /\ NonExcluded
  /\ req.path = <<"/", "/", "e", "n", "/", "a", "b", "o", "u", "t">>
  /\ resp.action = "REDIRECT"
  /\ resp.target = Some(<<"/", "s", "v", "/", "/", "e", "n", "/", "a", "b", "o", "u", "t">>)

\* C14 as stated: for a path prefixed with a supported locale the rewrite
\* target is /L/ followed by the normalized remainder, so a double slash
\* after the locale segment does not survive into the target.
C14_NoDoubleSlashInTarget ==
  (NonExcluded /\ PathLocales(req.path) # {}) =>
    /\ resp.action = "REWRITE"
    /\ ~Includes(TargetPathname(Val(resp.target)), <<"/", "/">>)

\* C14, amended: for a path prefixed with a supported locale L the rewrite
\* target is /L followed by the remainder of the path, which gets a leading
\* slash only when it has none (the bare path /L gives /L/) and is otherwise
\* kept as it is, so /en//about is rewritten to /en//about.
C14_RemainderKept ==
  NonExcluded =>
    \A L \in PathLocales(req.path) :
      /\ resp.action = "REWRITE"
      /\ TargetPathname(Val(resp.target)) =
           IF req.path = <<"/">> \o L THEN <<"/">> \o L \o <<"/">> ELSE req.path

C14_Witness ==
  /\ NonExcluded
  /\ req.path = <<"/", "e", "n", "/", "/", "a", "b", "o", "u", "t">>
  /\ resp.action = "REWRITE"
  /\ resp.target = Some(<<"/", "e", "n", "/", "/", "a", "b", "o", "u", "t">>)

\* The path has a segment api.
HasApiSegment(path) ==
  \E i \in 1..Len(Segments(path)) : Segments(path)[i] = <<"a", "p", "i">>

\* The path has a segment api that a slash follows.
HasApiSegmentAndSlash(path) ==
  LET raw == Split(path, "/")
  IN \E i \in 2..(Len(raw) - 1) : raw[i] = <<"a", "p", "i">>

HasStaticPrefix(path) ==
  Len(path) >= 7 /\ SubSeq(path, 1, 7) = <<"/", "s", "t", "a", "t", "i", "c">>

HasDot(path) == \E i \in 1..Len(path) : path[i] = "."

\* C15 as stated: shouldExclude(path) is true exactly when the path starts
\* with /static, or has a path segment api, or contains a dot.
C15_ExcludeApiSegment ==
  Answered =>
    (shouldExclude(req.path) <=>
       (HasStaticPrefix(req.path) \/ HasApiSegment(req.path) \/ HasDot(req.path)))

\* C15, amended: shouldExclude(path) is true exactly when the path starts
\* with /static, or contains /api/ (a segment api followed by a slash), or
\* contains a dot; the middleware then returns the untouched response.
C15_ExcludeApiSlash ==
  Answered =>
    /\ shouldExclude(req.path) <=>
         (HasStaticPrefix(req.path) \/ HasApiSegmentAndSlash(req.path) \/ HasDot(req.path))
    /\ handled =>
         (resp = ResponseNext <=>
            (HasStaticPrefix(req.path) \/ HasApiSegmentAndSlash(req.path) \/ HasDot(req.path)))

C15_Witness ==
  /\ Answered
  /\ handled
  /\ req.path = <<"/", "f", "o", "o", "/", "a", "p", "i">>
  /\ ~shouldExclude(req.path)
  /\ resp.action = "REDIRECT"

\* C16: for every request, whatever its path, cookie value and
\* Accept-Language value, the middleware produces exactly one routing
\* decision among PASSTHROUGH, REWRITE and REDIRECT and raises no error.
C16_AlwaysOneDecision ==
  (Answered /\ handled) =>
    /\ resp.action \in {"PASSTHROUGH", "REWRITE", "REDIRECT"}
    /\ resp.action = "PASSTHROUGH" <=> ~IsDefined(resp.target)
    /\ resp.action = "PASSTHROUGH" <=> shouldExclude(req.path)

C16_Witness ==
  /\ Answered
  /\ handled
  /\ req.cookie = Some(<<"d", "e">>)
  /\ req.header = Some(<<MalformedRange>>)
  /\ resp.action = "REWRITE"

\* The locale that cookie, header and default give, in that order.
ExpectedResolution ==
  IF ValidCookie(req.cookie) THEN Val(req.cookie)
  ELSE IF MatchingPositions(req.header) # {} THEN PreferredLocale(req.header)
  ELSE DEFAULT_LOCALE

\* C18: a path whose first segment is not a supported locale (/de/about,
\* /english) is handled as PathHasNoLocale: the locale is resolved from
\* cookie, header and default, and the target is /<locale> followed by the
\* whole original path.
C18_UnsupportedSegmentKept ==
  (NonExcluded /\ SegmentLocales(req.path) = {}) =>
    /\ resp.locale = Some(ExpectedResolution)
    /\ resp.target = Some(PrefixedTarget(ExpectedResolution))
    /\ resp.action = IF ExpectedResolution = DEFAULT_LOCALE THEN "REWRITE" ELSE "REDIRECT"

C18_Witness ==
  /\ NonExcluded
  /\ req.path = <<"/", "e", "n", "g", "l", "i", "s", "h">>
  /\ req.cookie = Some(<<"s", "v">>)
  /\ resp.target = Some(<<"/", "s", "v", "/", "e", "n", "g", "l", "i", "s", "h">>)

\* ---------------------------------------------------------------------
\* Draft mode: what the properties speak of
\* ---------------------------------------------------------------------

\* GET /api/draft has answered the request draftReq.
DraftAnswered == draftResp.status \notin {0, 200}

MissingParameter ==
  ~Truthy(draftReq.ver) \/ ~Truthy(draftReq.token) \/ ~Truthy(draftReq.key)

CmsHasErrors == ~cms.fails /\ IsDefined(cms.errors)

CmsHasItem == ~cms.fails /\ IsDefined(cms.data) /\ IsDefined(Val(cms.data).item)

\* The response rejects: draft mode is as it was and nothing is redirected.
Rejected(status) ==
  /\ draftResp.status = status
  /\ ~draftResp.enable
  /\ draftEnabled = draftWas
  /\ ~IsDefined(draftResp.location)

\* C19: GET /api/draft enables draft mode only for a request whose
\* preview_token is the validated one: no request with an invalid
\* preview_token leads to draft mode being enabled.
C19_OnlyValidTokenEnables ==
  (DraftAnswered /\ draftResp.enable) => draftReq.tokenIssued

\* C20: GET /api/draft rejects without enabling draft mode: 404 when ver,
\* preview_token or key is missing, 401 with the joined error messages when
\* the CMS response carries errors, 400 when it has no content item; each
\* leaves draft mode unchanged and redirects nowhere, and draft mode is
\* enabled only after all three checks pass.
C20_RejectionOutcomes ==
  DraftAnswered =>
    /\ MissingParameter => Rejected(404)
    /\ (~MissingParameter /\ CmsHasErrors) =>
         /\ Rejected(401)
         /\ draftResp.body = Some(Join(Val(cms.errors), <<",", " ">>))
    /\ (~MissingParameter /\ ~cms.fails /\ ~CmsHasErrors /\ ~CmsHasItem) => Rejected(400)
    /\ draftResp.enable => (~MissingParameter /\ ~CmsHasErrors /\ CmsHasItem)

\* ---------------------------------------------------------------------
\* Pages and the language switcher
\* ---------------------------------------------------------------------

\* A page has answered the request pageReq.
PageAnswered == pageResp.status # 0

C22_CheckDraftMode ==
  (PageAnswered /\ pageReq.kind = "DraftHomePage") =>
    /\ checkDraftMode(TRUE, nodeEnv)
    /\ checkDraftMode(FALSE, nodeEnv) = (nodeEnv # "production")
    /\ (pageResp.status = 404) <=> (nodeEnv = "production" /\ ~draftEnabled)
    /\ pageResp.status = 404 => pageResp.fetch = "none"
    /\ pageResp.status # 404 => (pageResp.status = 200 /\ pageResp.fetch = "preview")

C22_Witness ==
  /\ pageReq.kind = "DraftHomePage"
  /\ nodeEnv = "development"
  /\ ~draftEnabled
  /\ pageResp.status = 200
  /\ pageResp.fetch = "preview"

\* The path without the locale the page is shown in, as segments.
SegmentsWithoutLocale(path, locale) ==
  LET segments == Segments(path)
  IN IF segments # <<>> /\ Head(segments) = locale THEN Tail(segments) ELSE segments

\* C23: selecting locale N in the language switcher keeps the page: the
\* navigation target has N as its first segment and, after it, the segments
\* of the current path without its locale prefix, for every current path
\* and every current locale.
C23_SwitchKeepsPage ==
  IsDefined(newPath) =>
    Segments(Val(newPath))
      = <<Val(newLocale)>> \o SegmentsWithoutLocale(pathname, currentLocale)

\* C24: getValidLocale returns its input when the input is a supported
\* locale and the default locale otherwise; its result is always a
\* supported locale, and applying it again changes nothing.
C24_ValidLocale ==
  (PageAnswered /\ IsDefined(pageResp.locales)) =>
    LET input == pageReq.locale
        output == Val(pageResp.locales)
    IN /\ input \in LocaleSet => output = input
       /\ input \notin LocaleSet => output = DEFAULT_LOCALE
       /\ output \in LocaleSet
       /\ getValidLocale(output) = output

C24_Witness ==
  /\ PageAnswered
  /\ pageReq.locale = <<"v", "1", ".", "2">>
  /\ pageResp.locales = Some(<<"e", "n">>)


\* ---------------------------------------------------------------------
\* Redirect chains and the cookie over time
\* ---------------------------------------------------------------------

\* C25: no redirect loop: the target of every redirect is a non-excluded
\* path that starts with a supported locale, so the response to the
\* followed redirect is a rewrite with the same locale; a chain of followed
\* responses holds at most one redirect and ends in a rewrite.
C25_NoRedirectLoop ==
  /\ (Answered /\ resp.action = "REDIRECT") =>
       LET target == TargetPathname(Val(resp.target))
       IN /\ MatcherMatches(target)
          /\ ~shouldExclude(target)
          /\ PathLocales(target) = {Val(resp.locale)}
  /\ hops <= 1
  /\ hops = 1 =>
       /\ phase = "responded"
       /\ NonExcluded
       /\ resp.action = "REWRITE"
       /\ resp.locale = applied

C25_Witness ==
  /\ hops = 1
  /\ req.path = <<"/", "p", "l", "/", "a", "b", "o", "u", "t">>
  /\ resp.action = "REWRITE"
  /\ resp.locale = Some(<<"p", "l">>)

\* C26: once the client has applied the response to a non-excluded request,
\* its locale cookie equals the locale that the most recent such request
\* resolved and is a supported locale, whatever cookie it started with.
C26_CookieTracksResolution ==
  IsDefined(applied) => (jar = applied /\ Val(jar) \in LocaleSet)

C26_Witness ==
  /\ phase = "redirected"
  /\ req.cookie = Some(<<"d", "e">>)
  /\ applied = Some(<<"p", "l">>)
  /\ jar = Some(<<"p", "l">>)

\* C27: a request without a locale in its path that carries a supported
\* cookie value leaves the cookie alone whatever its Accept-Language header;
\* a supported cookie value is changed only by a request whose path starts
\* with a different supported locale.
C27_SupportedCookieStable ==
  /\ (NoLocaleInPath /\ ValidCookie(req.cookie)) =>
       (~IsDefined(resp.setCookie) /\ ~resp.deleteCookie)
  /\ (Answered /\ ValidCookie(req.cookie)
        /\ (IsDefined(resp.setCookie) \/ resp.deleteCookie)) =>
       /\ NonExcluded
       /\ \E L \in PathLocales(req.path) :
            L # Val(req.cookie) /\ resp.setCookie = Some(L) /\ ~resp.deleteCookie

C27_Witness ==
  /\ NoLocaleInPath
  /\ req.cookie = Some(<<"s", "v">>)
  /\ req.header = Some(<<[tag |-> <<"p", "l", "-", "P", "L">>, q |-> 10]>>)
  /\ resp.locale = Some(<<"s", "v">>)
  /\ ~IsDefined(resp.setCookie)

====
